---- MODULE Spec2Model ----
(***************************************************************************)
(* Wedding gift shop (streamlit_app.py): a DynamoDB table of gift items,   *)
(* a 5 s read cache in front of a paginated scan, a guest page that takes  *)
(* items from the table, an admin panel that adds and edits items, and a   *)
(* password gate in front of both pages.                                   *)
(***************************************************************************)
EXTENDS Integers, Sequences, FiniteSets, TLC

VARIABLES table, cache, now, query_params, session_state, widget, page,
          message, matched, pc, ev, items, last_evaluated_key,
          pages, scan_start, confirmed

vars == <<table, cache, now, query_params, session_state, widget, page,
          message, matched, pc, ev, items, last_evaluated_key,
          pages, scan_start, confirmed>>

(* ------------------------------ bounds --------------------------------- *)
MaxItems == 2
AdminItems == 2
ScanItems == 4
MaxPage == 2
MaxClock == 1

(* ------------------------ sessions and inputs -------------------------- *)
Guests == {"g1", "g2"}
Admins == {"a1"}
Sessions == Guests \cup Admins

Ids == 1..MaxItems
AdminIds == 1..AdminItems
ScanIds == 1..ScanItems

\* text typed into the "who are you" field, as sequences of characters
BuyerNames == {<<>>, <<" ">>, <<"A">>, <<" ", "B">>}
Messages == {""}
NewItemNames == {"Lamp"}
\* st.number_input values, in cents
NewPrices == {990}
NewDescriptions == {"e"}
\* uploaded files: size in bytes and content
Small == [size |-> 512000, data |-> "img1"]
Limit == [size |-> 1048576, data |-> "img2"]
Large == [size |-> 1048577, data |-> "img3"]
NoImage == [size |-> -1, data |-> "None"]
\* the 'Add New Product' form: complete, one field left empty, image too big
AddForms == {<<"Vase", 1250, Limit, "d">>, <<"", 1250, Limit, "d">>,
             <<"Vase", 0, Limit, "d">>, <<"Vase", 1250, NoImage, "d">>,
             <<"Vase", 1250, Limit, "">>, <<"Vase", 1250, Large, "d">>}
Passwords == {"abc", "xyz", "wrong"}
Routes == {{}, {"secretadmin"}}

None == <<>>

(* --------------------------- dict helpers ------------------------------ *)
Get(d, k, default) == IF k \in DOMAIN d THEN d[k] ELSE default
Put(d, k, v) == [x \in DOMAIN d \cup {k} |-> IF x = k THEN v ELSE d[x]]
Del(d, k) == [x \in DOMAIN d \ {k} |-> d[x]]
Merge(a, b) == [x \in DOMAIN a \cup DOMAIN b |-> IF x \in DOMAIN b THEN b[x] ELSE a[x]]
EmptyDict == [x \in {} |-> TRUE]

(* --------------------------- DynamoDB table ---------------------------- *)
\* table.put_item(Item=...): replaces the whole item under its key
put_item(tbl, item) == Put(tbl, item["id"], item)

\* table.update_item(Key, SET ...): sets the attributes, creating the item
\* when the key is not stored
update_item(tbl, key, sets) ==
    Put(tbl, key, Merge(Get(tbl, key, [id |-> key]), sets))

RECURSIVE Ascending(_)
Ascending(S) ==
    IF S = {} THEN <<>>
    ELSE LET m == CHOOSE x \in S : \A y \in S : x <= y
         IN <<m>> \o Ascending(S \ {m})

\* table.scan(ExclusiveStartKey=...): the next page of at most n items in
\* key order; LastEvaluatedKey is returned while the page limit was hit
scan(tbl, ExclusiveStartKey, n, keyAtEnd) ==
    LET after == {k \in DOMAIN tbl :
                    ExclusiveStartKey = None \/ k > ExclusiveStartKey[1]}
        ks == Ascending(after)
        cnt == IF Len(ks) < n THEN Len(ks) ELSE n
        its == [i \in 1..cnt |-> tbl[ks[i]]]
    IN IF Len(ks) > n \/ (Len(ks) = n /\ keyAtEnd)
       THEN [Items |-> its, LastEvaluatedKey |-> <<ks[cnt]>>]
       ELSE [Items |-> its]

(* ----------------------------- conversions ----------------------------- *)
\* str.strip() on a sequence of characters
RECURSIVE lstrip(_)
lstrip(s) == IF s /= <<>> /\ Head(s) = " " THEN lstrip(Tail(s)) ELSE s
RECURSIVE rstrip(_)
rstrip(s) ==
    IF s /= <<>> /\ s[Len(s)] = " " THEN rstrip(SubSeq(s, 1, Len(s) - 1)) ELSE s
strip(s) == rstrip(lstrip(s))

\* decimal.Decimal(str(price)) of a float given in cents: str() prints the
\* shortest form ("12.5", "12.0", "9.99"), Decimal keeps digits and exponent
Decimal_str(cents) ==
    IF cents % 100 = 0 THEN <<(cents \div 100) * 10, -1>>
    ELSE IF cents % 10 = 0 THEN <<cents \div 10, -1>>
    ELSE <<cents, -2>>

\* numeric value of a stored Decimal, in cents
DecimalCents(d) == IF d[2] = -1 THEN d[1] * 10 ELSE d[1]

\* a load_data that keeps only the page it read last
extend_replace(its, more) == more

\* items.extend(response['Items'])
extend(its, more) == its \o more

\* base64.b64encode(image.read()).decode()
b64encode(image) == <<"b64", image.data, 4 * ((image.size + 2) \div 3)>>

(* ----------------------------- operations ------------------------------ *)
max_size_mb == 1

check_image_size(image) == image.size <= max_size_mb * 1024 * 1024

\* a mark_as_purchased that records no purchase time
mark_as_purchased_no_timestamp(tbl, item_id, buyer_name, msg, timestamp) ==
    update_item(tbl, item_id,
                [purchased |-> TRUE, buyer_name |-> buyer_name,
                 buyer_message |-> msg])

mark_as_purchased(tbl, item_id, buyer_name, msg, timestamp) ==
    update_item(tbl, item_id,
                [purchased |-> TRUE, buyer_name |-> buyer_name,
                 buyer_message |-> msg, purchase_timestamp |-> timestamp])

\* an id generator that may hand out a stored id again
uuid4_reused(tbl, universe) == universe

\* uuid.uuid4(): an id no stored item has
uuid4(tbl, universe) == universe \ DOMAIN tbl

add_product(tbl, item_id, item_name, price, image, description, fault) ==
    IF ~check_image_size(image) THEN [ret |-> FALSE, table |-> tbl]
    ELSE IF fault THEN [ret |-> FALSE, table |-> tbl]
    ELSE [ret |-> TRUE,
          table |-> put_item(tbl, [id |-> item_id, item_name |-> item_name,
                                   price |-> Decimal_str(price),
                                   image_data |-> b64encode(image),
                                   description |-> description,
                                   purchased |-> FALSE])]

\* an update_product that writes the item anew with put_item
update_product_replace(tbl, item_id, item_name, price, description, image, fault) ==
    IF image /= NoImage /\ ~check_image_size(image)
    THEN [ret |-> FALSE, table |-> tbl]
    ELSE IF fault THEN [ret |-> FALSE, table |-> tbl]
    ELSE [ret |-> TRUE,
          table |-> put_item(tbl, [id |-> item_id, item_name |-> item_name,
                                   price |-> Decimal_str(price),
                                   description |-> description])]

update_product(tbl, item_id, item_name, price, description, image, fault) ==
    LET base == [item_name |-> item_name, price |-> Decimal_str(price),
                 description |-> description]
    IN IF image /= NoImage /\ ~check_image_size(image)
       THEN [ret |-> FALSE, table |-> tbl]
       ELSE IF fault THEN [ret |-> FALSE, table |-> tbl]
       ELSE [ret |-> TRUE,
             table |-> update_item(tbl, item_id,
                          IF image /= NoImage
                          THEN Merge(base, [image_data |-> b64encode(image)])
                          ELSE base)]

\* df[df['purchased'] == v]
Filter(rows, v) ==
    SelectSeq(rows, LAMBDA r : "purchased" \in DOMAIN r /\ r["purchased"] = v)

RowIds(rows) == {rows[i]["id"] : i \in 1..Len(rows)}

(* ---------------------------- access gate ------------------------------ *)
\* st.secrets
secrets == [password |-> "abc", password_admin |-> "xyz"]

NoWidget == "none"
IncorrectText == "Password incorrect"

\* on_change callback of the password field, bound to the key it was
\* rendered with; hmac.compare_digest is equality
password_entered(ss, password_key) ==
    IF ss["password"] = secrets[password_key]
    THEN Del(Put(ss, "password_correct", TRUE), "password")
    ELSE Put(ss, "password_correct", FALSE)

\* a check_password that keeps showing the password field once unlocked
check_password_keeps_field(ss, password_key) ==
    [ret |-> Get(ss, "password_correct", FALSE), widget |-> password_key,
     error |-> IF ~Get(ss, "password_correct", TRUE) THEN IncorrectText ELSE ""]

\* ret: the return value; widget: the key the text input is rendered with;
\* error: the st.error text shown
check_password(ss, password_key) ==
    IF Get(ss, "password_correct", FALSE)
    THEN [ret |-> TRUE, widget |-> NoWidget, error |-> ""]
    ELSE [ret |-> FALSE, widget |-> password_key,
          error |-> IF "password_correct" \in DOMAIN ss THEN IncorrectText ELSE ""]

(* ------------------------------ pages ---------------------------------- *)
View == [type |-> "view"]

\* the new values one script run leaves for its session
Result(tbl, wd, pg, msg, p, e, buyers, t) ==
    [table |-> tbl, widget |-> wd, page |-> pg, message |-> msg,
     pc |-> p, ev |-> e, buyers |-> buyers, now |-> t]

\* the buy button of e.id is rendered enabled and was clicked.  The flag
\* st.session_state["purchased_<id>"] tested before the popover is only ever
\* assigned False, so the test always passes and the flag is left out.
ClaimEnabled(rows, e) ==
    /\ e.type = "claim"
    /\ e.id \in RowIds(Filter(rows, FALSE))
    /\ strip(e.name) /= <<>>

\* shop_page once load_data has returned rows; ts is datetime.now()
shop_render(rows, e, ts) ==
    IF ClaimEnabled(rows, e)
    THEN Result(mark_as_purchased(table, e.id, e.name, e.message, ts),
                NoWidget, "shop", "", "idle", View, {e.id}, ts)
    ELSE Result(table, NoWidget, "shop", "", "idle", View, {}, now)

shop_page(e, ts) ==
    IF cache.valid THEN shop_render(cache.df, e, ts)
    ELSE Result(table, NoWidget, "shop", "", "scan", e, {}, now)

\* an admin panel that takes an update for an id it did not list
UpdateEnabled_unlisted(rows, e) == e.type = "update"

UpdateEnabled(rows, e) ==
    e.type = "update" /\ e.id \in RowIds(Filter(rows, FALSE))

\* admin_panel once load_data has returned rows
admin_render(tbl, rows, e, fault) ==
    IF UpdateEnabled(rows, e)
    THEN Result(update_product(tbl, e.id, e.item_name, e.price, e.description,
                               e.image, fault).table,
                NoWidget, "admin", "", "idle", View, {}, now)
    ELSE Result(tbl, NoWidget, "admin", "", "idle", View, {}, now)

AddFilled(e) ==
    e.item_name /= "" /\ e.price /= 0 /\ e.description /= "" /\ e.image /= NoImage

admin_panel(e, fault) ==
    LET tbl == IF e.type = "add" /\ AddFilled(e)
               THEN add_product(table, e.item_id, e.item_name, e.price,
                                e.image, e.description, fault).table
               ELSE table
    IN IF cache.valid THEN admin_render(tbl, cache.df, e, fault)
       ELSE Result(tbl, NoWidget, "admin", "", "scan",
                   IF e.type = "add" THEN View ELSE e, {}, now)

PasswordKey(qp) == IF "secretadmin" \in qp THEN "password_admin" ELSE "password"

\* one run of the script for a session whose state is ss and whose query
\* parameters are qp, triggered by event e
Script(ss, qp, e, fault, ts) ==
    LET g == check_password(ss, PasswordKey(qp))
    IN IF ~g.ret
       THEN Result(table, g.widget, "login", g.error, "idle", View, {}, now)
       ELSE LET r == IF "secretadmin" \in qp THEN admin_panel(e, fault)
                     ELSE shop_page(e, ts)
            IN [r EXCEPT !.widget = g.widget, !.message = g.error]

(* ------------------------------ actions -------------------------------- *)
\* the end of a script run of session s, with session state ss and query
\* parameters qp, that left r
Commit(s, r, ss, qp) ==
    /\ table' = r.table
    /\ now' = r.now
    /\ query_params' = [query_params EXCEPT ![s] = qp]
    /\ session_state' = [session_state EXCEPT ![s] = ss]
    /\ widget' = [widget EXCEPT ![s] = r.widget]
    /\ page' = [page EXCEPT ![s] = r.page]
    /\ message' = [message EXCEPT ![s] = r.message]
    /\ pc' = [pc EXCEPT ![s] = r.pc]
    /\ ev' = [ev EXCEPT ![s] = r.ev]
    /\ items' = [items EXCEPT ![s] = <<>>]
    /\ last_evaluated_key' = [last_evaluated_key EXCEPT ![s] = None]
    /\ pages' = [pages EXCEPT ![s] = <<>>]
    /\ scan_start' = [scan_start EXCEPT ![s] =
                        IF r.pc = "scan" THEN DOMAIN r.table ELSE {}]
    /\ confirmed' = confirmed \cup {<<i, s>> : i \in r.buyers}
    /\ UNCHANGED cache

\* a rerun without a widget event (page load, typing into a field)
page_view(s) ==
    /\ pc[s] = "idle"
    /\ Commit(s, Script(session_state[s], query_params[s], View, FALSE, now),
              session_state[s], query_params[s])
    /\ UNCHANGED matched

\* the password field changes to pw: its callback runs, then the script
password_submit(s, pw) ==
    /\ pc[s] = "idle"
    /\ widget[s] /= NoWidget
    /\ pw /= Get(session_state[s], "password", "")
    /\ LET key == widget[s]
           ss1 == password_entered(Put(session_state[s], "password", pw), key)
       IN /\ Commit(s, Script(ss1, query_params[s], View, FALSE, now),
                    ss1, query_params[s])
          /\ matched' = [matched EXCEPT ![s] =
                           IF pw = secrets[key] THEN @ \cup {key} ELSE @]

\* the session's query string changes and the script reruns
route_change(s, qp) ==
    /\ pc[s] = "idle"
    /\ qp /= query_params[s]
    /\ Commit(s, Script(session_state[s], qp, View, FALSE, now),
              session_state[s], qp)
    /\ UNCHANGED matched

ClaimEvent(id, name, msg) ==
    [type |-> "claim", id |-> id, name |-> name, message |-> msg]

\* the buy button of item id is clicked with name and msg in the popover
buy_click(s, id, name, msg, ts) ==
    /\ pc[s] = "idle"
    /\ page[s] = "shop"
    /\ Commit(s, Script(session_state[s], query_params[s],
                        ClaimEvent(id, name, msg), FALSE, ts),
              session_state[s], query_params[s])
    /\ UNCHANGED matched

AddEvent(item_id, item_name, price, image, description) ==
    [type |-> "add", item_id |-> item_id, item_name |-> item_name,
     price |-> price, image |-> image, description |-> description]

\* 'Add Product' is clicked
add_click(s, item_id, item_name, price, image, description, fault) ==
    /\ pc[s] = "idle"
    /\ page[s] = "admin"
    /\ Commit(s, Script(session_state[s], query_params[s],
                        AddEvent(item_id, item_name, price, image, description),
                        fault, now),
              session_state[s], query_params[s])
    /\ UNCHANGED matched

UpdateEvent(id, item_name, price, description, image) ==
    [type |-> "update", id |-> id, item_name |-> item_name,
     price |-> price, description |-> description, image |-> image]

\* 'Update Product' of item id is clicked
update_click(s, id, item_name, price, description, image, fault) ==
    /\ pc[s] = "idle"
    /\ page[s] = "admin"
    /\ Commit(s, Script(session_state[s], query_params[s],
                        UpdateEvent(id, item_name, price, description, image),
                        fault, now),
              session_state[s], query_params[s])
    /\ UNCHANGED matched

\* one table.scan request of load_data; the last one stores the result in
\* the cache and the page is rendered from it
scan_step(s, n, keyAtEnd) ==
    /\ pc[s] = "scan"
    /\ LET start == last_evaluated_key[s]
           response == scan(table, start, n, keyAtEnd)
           its == extend(items[s], response.Items)
           key == Get(response, "LastEvaluatedKey", None)
           done == key = None
           write == IF "secretadmin" \in query_params[s]
                    THEN UpdateEnabled(its, ev[s])
                    ELSE ClaimEnabled(its, ev[s])
       IN /\ items' = [items EXCEPT ![s] = IF done THEN <<>> ELSE its]
          /\ last_evaluated_key' = [last_evaluated_key EXCEPT ![s] = key]
          /\ pages' = [pages EXCEPT ![s] =
                         IF done THEN <<>>
                         ELSE Append(@, [start |-> start,
                                         Items |-> response.Items,
                                         key |-> key])]
          /\ scan_start' = [scan_start EXCEPT ![s] = IF done THEN {} ELSE @]
          /\ cache' = IF done THEN [valid |-> TRUE, df |-> its] ELSE cache
          /\ pc' = [pc EXCEPT ![s] = IF ~done THEN "scan"
                                     ELSE IF write THEN "act" ELSE "idle"]
          /\ ev' = [ev EXCEPT ![s] = IF done /\ ~write THEN View ELSE @]
    /\ UNCHANGED <<table, now, query_params, session_state, widget, page,
                   message, matched, confirmed>>

\* the write of a run that had to load the data first: mark_as_purchased
\* and the confirmation dialog, or update_product and st.rerun()
act(s, fault, ts) ==
    /\ pc[s] = "act"
    /\ LET e == ev[s]
           r == update_product(table, e.id, e.item_name, e.price,
                               e.description, e.image, fault)
           again == e.type = "update" /\ r.ret /\ ~cache.valid
       IN /\ table' = IF e.type = "claim"
                      THEN mark_as_purchased(table, e.id, e.name, e.message, ts)
                      ELSE r.table
          /\ now' = IF e.type = "claim" THEN ts ELSE now
          /\ confirmed' = IF e.type = "claim"
                          THEN confirmed \cup {<<e.id, s>>} ELSE confirmed
          /\ pc' = [pc EXCEPT ![s] = IF again THEN "scan" ELSE "idle"]
          /\ scan_start' = [scan_start EXCEPT ![s] =
                              IF again THEN DOMAIN table' ELSE {}]
    /\ ev' = [ev EXCEPT ![s] = View]
    /\ UNCHANGED <<cache, query_params, session_state, widget, page,
                   message, matched, items, last_evaluated_key, pages>>

\* st.cache_data(ttl='5s'): the entry is dropped when its time is up
cache_expiry ==
    /\ cache.valid
    /\ cache' = [valid |-> FALSE, df |-> <<>>]
    /\ UNCHANGED <<table, now, query_params, session_state, widget, page,
                   message, matched, pc, ev, items, last_evaluated_key, pages,
                   scan_start, confirmed>>

(* --------------------------- specifications ---------------------------- *)
InitStore ==
    /\ cache = [valid |-> FALSE, df |-> <<>>]
    /\ now = 0
    /\ message = [s \in Sessions |-> ""]
    /\ ev = [s \in Sessions |-> View]
    /\ items = [s \in Sessions |-> <<>>]
    /\ last_evaluated_key = [s \in Sessions |-> None]
    /\ pages = [s \in Sessions |-> <<>>]
    /\ confirmed = {}

\* every session has connected and sees the password field of its route
InitGate ==
    /\ InitStore
    /\ table = EmptyDict
    /\ query_params \in [Sessions -> Routes]
    /\ session_state = [s \in Sessions |-> EmptyDict]
    /\ widget = [s \in Sessions |-> PasswordKey(query_params[s])]
    /\ page = [s \in Sessions |-> "login"]
    /\ matched = [s \in Sessions |-> {}]
    /\ pc = [s \in Sessions |-> "idle"]
    /\ scan_start = [s \in Sessions |-> {}]

\* the guests and the admin have each entered the password of their route
\* and their first page is loading
InitUnlocked ==
    /\ InitStore
    /\ query_params = [s \in Sessions |->
                         IF s \in Admins THEN {"secretadmin"} ELSE {}]
    /\ session_state = [s \in Sessions |-> [password_correct |-> TRUE]]
    /\ widget = [s \in Sessions |-> NoWidget]
    /\ page = [s \in Sessions |-> IF s \in Admins THEN "admin" ELSE "shop"]
    /\ matched = [s \in Sessions |-> {PasswordKey(query_params[s])}]
    /\ pc = [s \in Sessions |-> "scan"]
    /\ scan_start = [s \in Sessions |-> DOMAIN table]

Init == table = EmptyDict /\ InitUnlocked

\* the table after the admin has added n items
RECURSIVE Stocked(_)
Stocked(n) ==
    IF n = 0 THEN EmptyDict
    ELSE add_product(Stocked(n - 1), n, "Vase", 1250, Small, "d", FALSE).table

InitShop == table = Stocked(MaxItems) /\ InitUnlocked

Timestamps == now..MaxClock

\* two guests at a stocked gift table
NextShop ==
    \/ \E s \in Guests : page_view(s)
    \/ \E s \in Guests, id \in Ids, name \in BuyerNames, msg \in Messages :
          \E ts \in Timestamps : buy_click(s, id, name, msg, ts)
    \/ \E s \in Guests : scan_step(s, MaxPage, FALSE)
    \/ \E s \in Guests : \E ts \in Timestamps : act(s, FALSE, ts)
    \/ cache_expiry

SpecShop == InitShop /\ [][NextShop]_vars

\* the admin fills and edits the table while a guest takes items
NextAdmin ==
    \/ \E s \in {"a1", "g1"} : page_view(s)
    \/ \E id \in AdminIds, name \in {<<" ">>, <<"A">>}, msg \in Messages :
          buy_click("g1", id, name, msg, now)
    \/ \E f \in AddForms, fault \in BOOLEAN :
          \E item_id \in uuid4(table, AdminIds) :
             add_click("a1", item_id, f[1], f[2], f[3], f[4], fault)
    \/ \E id \in AdminIds, item_name \in NewItemNames,
          price \in NewPrices, description \in NewDescriptions,
          image \in {NoImage, Large}, fault \in BOOLEAN :
          update_click("a1", id, item_name, price, description, image, fault)
    \/ scan_step("a1", MaxPage, FALSE)
    \/ \E n \in 1..MaxPage : scan_step("g1", n, FALSE)
    \/ \E s \in {"a1", "g1"}, fault \in BOOLEAN : act(s, fault, now)
    \/ cache_expiry

SpecAdmin == Init /\ [][NextAdmin]_vars

\* a guest reloads the page while the admin adds items
NextScan ==
    \/ \E s \in {"a1", "g1"} : page_view(s)
    \/ \E item_id \in uuid4(table, ScanIds) :
          add_click("a1", item_id, "Vase", 1250, Small, "d", FALSE)
    \/ \E s \in {"a1", "g1"}, n \in 1..MaxPage, keyAtEnd \in BOOLEAN :
          scan_step(s, n, keyAtEnd)
    \/ cache_expiry

SpecScan == Init /\ [][NextScan]_vars

\* sessions at the password gate
NextGate ==
    \/ \E s \in Sessions, pw \in Passwords : password_submit(s, pw)
    \/ \E s \in Sessions, qp \in Routes : route_change(s, qp)
    \/ \E s \in Sessions : page_view(s)
    \/ \E s \in Sessions, n \in 1..MaxPage, keyAtEnd \in BOOLEAN :
          scan_step(s, n, keyAtEnd)
    \/ cache_expiry

SpecGate == InitGate /\ [][NextGate]_vars

(* ------------------------------ properties ----------------------------- *)
BuyerAttrs == {"buyer_name", "buyer_message", "purchase_timestamp"}

Guest1 == CHOOSE s \in Guests : TRUE

Buyers(id) == {s \in Sessions : <<id, s>> \in confirmed}

\* C1: of the guests that take the same item only one is told that the item
\* is theirs; the table never accepts two claims for one id.
C1_OneClaimPerItem == \A id \in Ids : Cardinality(Buyers(id)) <= 1

\* C2: a claim on an item whose stored purchased flag is already true fails
\* and leaves the stored buyer_name, buyer_message and purchase_timestamp as
\* they are, also when the claiming session renders a cached catalog.
C2_ClaimOnPurchasedKeepsBuyer ==
    [][\A id \in DOMAIN table :
          table[id]["purchased"] =>
             /\ {s \in Sessions : <<id, s>> \in confirmed'} = Buyers(id)
             /\ \A a \in BuyerAttrs : table'[id][a] = table[id][a]]_vars

\* C7: the claim operation itself refuses an empty or whitespace-only buyer
\* name and leaves the item as it is.
C7_ClaimOperationRefusesBlankName ==
    \A id \in DOMAIN table, name \in BuyerNames, msg \in Messages :
       strip(name) = <<>> => mark_as_purchased(table, id, name, msg, now) = table

\* C3: the admin panel is rendered only in a session that matched the admin
\* secret, the shop page only in one that matched the guest secret.
C3_PageNeedsItsSecret ==
    \A s \in Sessions :
       /\ page[s] = "admin" => "password_admin" \in matched[s]
       /\ page[s] = "shop" => "password" \in matched[s]

Unlocked(s) == Get(session_state[s], "password_correct", FALSE)

\* C10: the gate starts locked; a submission that matches the secret of the
\* requested view unlocks it, and it then stays unlocked; a submission that
\* does not match leaves it locked and shows the one generic error text,
\* whichever secret was expected.
C10_GateStaysUnlocked ==
    /\ \A s \in Sessions : ~Unlocked(s)
    /\ [][\A s \in Sessions :
             /\ Unlocked(s) => Unlocked(s)'
             /\ \A pw \in Passwords :
                   password_submit(s, pw) =>
                      IF pw = secrets[PasswordKey(query_params[s])]
                      THEN Unlocked(s)' /\ page'[s] /= "login"
                      ELSE /\ ~Unlocked(s)'
                           /\ page'[s] = "login"
                           /\ message'[s] = "Password incorrect"]_vars

\* a session is unlocked on each route and another one sees the error
C10_Witness ==
    \E s, t, u \in Sessions :
       /\ Unlocked(s) /\ page[s] = "shop"
       /\ Unlocked(t) /\ page[t] = "admin"
       /\ ~Unlocked(u) /\ message[u] = "Password incorrect"

WellFormed(row) ==
    /\ "purchased" \in DOMAIN row
    /\ row["purchased"] \in BOOLEAN
    /\ row["purchased"] => BuyerAttrs \subseteq DOMAIN row
    /\ ~row["purchased"] => BuyerAttrs \cap DOMAIN row = {}

\* C4: an item that is not purchased has none of buyer_name, buyer_message
\* and purchase_timestamp, a purchased item has all three, in the table and
\* in every row a load_data scan has read.
C4_BuyerFieldsGoWithPurchased ==
    /\ \A id \in DOMAIN table : WellFormed(table[id])
    /\ \A i \in 1..Len(cache.df) : WellFormed(cache.df[i])
    /\ \A s \in Sessions : \A i \in 1..Len(items[s]) : WellFormed(items[s][i])

\* a scan has read a purchased item while another item is still available
C4_Witness ==
    /\ \E i \in 1..Len(cache.df) : cache.df[i]["purchased"]
    /\ \E id \in DOMAIN table : ~table[id]["purchased"]
    /\ \E id \in DOMAIN table :
          table[id]["purchased"] /\ table[id]["item_name"] \in NewItemNames

\* C5: a stored purchased flag that is true stays true.
C5_PurchasedNeverReverts ==
    [][\A id \in DOMAIN table :
          table[id]["purchased"] =>
             id \in DOMAIN table' /\ table'[id]["purchased"] = TRUE]_vars

\* a purchased item was edited, and the table is full
C5_Witness ==
    /\ DOMAIN table = AdminIds
    /\ \E id \in DOMAIN table :
          /\ table[id]["purchased"]
          /\ table[id]["item_name"] \in NewItemNames
          /\ <<id, Guest1>> \in confirmed

\* C9: every row of a catalog returned by load_data is in exactly one of
\* the lists purchased == False and purchased == True.
C9_PartitionOfCatalog ==
    LET rows == cache.df
        available == Filter(rows, FALSE)
        claimed == Filter(rows, TRUE)
    IN /\ Len(available) + Len(claimed) = Len(rows)
       /\ RowIds(available) \cup RowIds(claimed) = RowIds(rows)
       /\ RowIds(available) \cap RowIds(claimed) = {}

\* a catalog with an available and a claimed item
C9_Witness ==
    /\ cache.valid
    /\ Filter(cache.df, FALSE) /= <<>>
    /\ Filter(cache.df, TRUE) /= <<>>

UpdateEvents ==
    {UpdateEvent(id, item_name, price, description, image) :
        id \in AdminIds, item_name \in NewItemNames, price \in NewPrices,
        description \in NewDescriptions, image \in {NoImage, Large}}

UpdateEffect(e, fault) ==
    IF fault \/ (e.image /= NoImage /\ e.image.size > 1048576)
    THEN table' = table
    ELSE /\ DOMAIN table' = DOMAIN table
         /\ \A j \in DOMAIN table \ {e.id} : table'[j] = table[j]
         /\ DOMAIN table'[e.id] = DOMAIN table[e.id]
         /\ table'[e.id]["item_name"] = e.item_name
         /\ DecimalCents(table'[e.id]["price"]) = e.price
         /\ table'[e.id]["description"] = e.description
         /\ \A a \in DOMAIN table[e.id] \
                     {"item_name", "price", "description", "image_data"} :
               table'[e.id][a] = table[e.id][a]
         /\ e.image = NoImage =>
               table'[e.id]["image_data"] = table[e.id]["image_data"]

\* e.id is listed among the available items of the cached catalog
Listed(e) ==
    \E i \in 1..Len(cache.df) :
       cache.df[i]["id"] = e.id /\ cache.df[i]["purchased"] = FALSE

\* C8: update_product without an image sets item_name, price and
\* description of the item and leaves its image_data, purchased, buyer_name,
\* buyer_message and purchase_timestamp and every other item as they are;
\* with an image over 1 MiB it changes nothing.  update_product is called by
\* the click itself when the catalog is cached (a run that changes nothing
\* but the table), and after the load otherwise.
C8_UpdateTouchesThreeFields ==
    [][\A s \in Admins :
          /\ pc[s] = "act" /\ ev[s].type = "update" =>
                \A fault \in BOOLEAN :
                   act(s, fault, now) => UpdateEffect(ev[s], fault)
          /\ /\ pc[s] = "idle"
             /\ cache.valid
             /\ UNCHANGED <<cache, now, query_params, session_state, widget,
                            page, message, matched, pc, ev, items,
                            last_evaluated_key, pages, scan_start, confirmed>>
             => \A e \in UpdateEvents, fault \in BOOLEAN :
                   \/ ~Listed(e)
                   \/ UpdateEffect(e, fault)
                   \/ ~update_click(s, e.id, e.item_name, e.price,
                                    e.description, e.image, fault)]_vars

\* an item a guest has taken was renamed and kept its image, next to an
\* item that was not edited
C8_Witness ==
    \E id, j \in DOMAIN table :
       /\ table[id]["item_name"] \in NewItemNames
       /\ table[id]["image_data"] = b64encode(Limit)
       /\ table[id]["purchased"]
       /\ table[j]["item_name"] = "Vase"

RECURSIVE Concat(_)
Concat(ps) ==
    IF ps = <<>> THEN <<>> ELSE Concat(SubSeq(ps, 1, Len(ps) - 1)) \o ps[Len(ps)].Items

IsPrefix(a, b) == Len(a) <= Len(b) /\ SubSeq(b, 1, Len(a)) = a

Occurrences(rows, id) == Cardinality({i \in 1..Len(rows) : rows[i]["id"] = id})

\* C6: load_data asks for the next page with the key of the page before,
\* stops at the first page without a key, and returns the pages' items in
\* order, every item stored when it began exactly once.
C6_LoadDataReadsEveryPage ==
    [][\A s \in Sessions :
          /\ pc[s] = "scan"
          /\ pc'[s] /= "scan" \/ last_evaluated_key'[s] /= last_evaluated_key[s]
          /\ \E n \in 1..MaxPage, keyAtEnd \in BOOLEAN : scan_step(s, n, keyAtEnd)
          =>
             IF last_evaluated_key'[s] /= None
             THEN /\ pc'[s] = "scan"
                  /\ Len(pages'[s]) = Len(pages[s]) + 1
                  /\ SubSeq(pages'[s], 1, Len(pages[s])) = pages[s]
                  /\ LET q == pages'[s][Len(pages'[s])]
                     IN /\ q.key = last_evaluated_key'[s]
                        /\ q.start = IF pages[s] = <<>> THEN None
                                     ELSE pages[s][Len(pages[s])].key
                  /\ items'[s] = Concat(pages'[s])
             ELSE /\ pc'[s] /= "scan"
                  /\ cache'.valid
                  /\ IsPrefix(Concat(pages[s]), cache'.df)
                  /\ \A k \in scan_start[s] : Occurrences(cache'.df, k) = 1
                  /\ \A k \in DOMAIN table : Occurrences(cache'.df, k) <= 1
                  /\ \A i \in Len(Concat(pages[s])) + 1..Len(cache'.df) :
                        cache'.df[i] = table[cache'.df[i]["id"]]]_vars

\* a load that took several pages returned every item of a full table
C6_Witness ==
    /\ cache.valid
    /\ DOMAIN table = ScanIds
    /\ RowIds(cache.df) = ScanIds
    /\ Len(cache.df) > MaxPage
====
